---- MODULE Spec2Model ----
(***************************************************************************)
(* Progress cascade engine of the Activity-Engine                          *)
(* (CourseProgressService.ts): initialization of per-student progress      *)
(* rows and adjacency tables, and the item -> section -> module -> course   *)
(* cascade run by updateSectionItemProgress.                               *)
(***************************************************************************)
EXTENDS Integers, Sequences, FiniteSets, TLC

VARIABLES db, last, calls, env

vars == <<db, last, calls, env>>

(***************************************************************************)
(* Values                                                                  *)
(***************************************************************************)
Null == "null"

INCOMPLETE == "INCOMPLETE"
IN_PROGRESS == "IN_PROGRESS"
COMPLETE == "COMPLETE"

ProgressEnum == {IN_PROGRESS, INCOMPLETE, COMPLETE}

\* Position of a status in the order INCOMPLETE < IN_PROGRESS < COMPLETE.
Rank(st) == CASE st = INCOMPLETE -> 0 [] st = IN_PROGRESS -> 1 [] st = COMPLETE -> 2

\* Outcomes of a call.
OK == "ok"
GatingViolation == "GatingViolation"
NotFound == "NotFound"
InitializationFailed == "InitializationFailed"
Fault == "fault"

(***************************************************************************)
(* Bounds of the model                                                     *)
(***************************************************************************)
\* Longest sectionItemIds array of one call.
MaxItemsPerCall == 2
\* Longest sectionItemIds array of a call that is interrupted and retried.
MaxItemsPerRetriedCall == 3
\* Number of calls in one behaviour of a world that bounds them.
MaxCalls == 3
\* The TotalProgress value a student may hold before initialization.
SomeProgress == 40

(***************************************************************************)
(* Sequence helpers                                                        *)
(***************************************************************************)
RECURSIVE Flatten(_)
Flatten(ss) == IF ss = <<>> THEN <<>> ELSE Head(ss) \o Flatten(Tail(ss))

Range(s) == {s[i] : i \in 1..Len(s)}

\* Array.prototype.find(x => x.sequence === n): position of the first element
\* with that sequence, 0 when there is none.
FindSequence(xs, n) ==
  LET hits == {i \in 1..Len(xs) : xs[i].sequence = n}
  IN IF hits = {} THEN 0 ELSE CHOOSE i \in hits : \A j \in hits : i <= j

\* Array.prototype.sort((a, b) => a.sequence - b.sequence): stable, ascending.
InsertBySequence(sorted, x) ==
  LET k == Cardinality({i \in 1..Len(sorted) : sorted[i].sequence <= x.sequence})
  IN SubSeq(sorted, 1, k) \o <<x>> \o SubSeq(sorted, k + 1, Len(sorted))

RECURSIVE SortFrom(_, _)
SortFrom(sorted, rest) ==
  IF rest = <<>> THEN sorted
  ELSE SortFrom(InsertBySequence(sorted, Head(rest)), Tail(rest))

\* The array left in the order it was given in.
SortBySequence_Unsorted(xs) == xs

\* xs.sort((a, b) => a.sequence - b.sequence)
SortBySequence(xs) == SortFrom(<<>>, xs)

(***************************************************************************)
(* Course data (interfaces SectionItem, Section, Module, CourseProgressData)*)
(***************************************************************************)
SectionItem(id, n) == [sectionItemId |-> id, sequence |-> n]
Section(id, n, items) == [sectionId |-> id, sequence |-> n, sectionItems |-> items]
Module(id, n, secs) == [moduleId |-> id, sequence |-> n, sections |-> secs]
CourseProgressData(c, studs, mods) ==
  [courseInstanceId |-> c, studentIds |-> studs, modules |-> mods]

\* The course data after extractAllIds has run on it: the module array is
\* copied before it is sorted, the section and item arrays are sorted in place.
SortedInPlace(cd) ==
  [cd EXCEPT !.modules =
    [i \in 1..Len(cd.modules) |->
      [cd.modules[i] EXCEPT !.sections =
        LET secs == SortBySequence(cd.modules[i].sections)
        IN [j \in 1..Len(secs) |->
             [secs[j] EXCEPT !.sectionItems = SortBySequence(secs[j].sectionItems)]]]]]

extractAllIds(cd) ==
  LET sortedModules == SortBySequence(SortedInPlace(cd).modules)
      fm == FindSequence(sortedModules, 1)
      fs == IF fm = 0 THEN 0 ELSE FindSequence(sortedModules[fm].sections, 1)
      fi == IF fs = 0 THEN 0
            ELSE FindSequence(sortedModules[fm].sections[fs].sectionItems, 1)
  IN [modules |-> [i \in 1..Len(sortedModules) |-> sortedModules[i].moduleId],
      sections |-> Flatten([i \in 1..Len(sortedModules) |->
                      [j \in 1..Len(sortedModules[i].sections) |->
                         sortedModules[i].sections[j].sectionId]]),
      sectionItems |-> Flatten([i \in 1..Len(sortedModules) |->
                      Flatten([j \in 1..Len(sortedModules[i].sections) |->
                         [k \in 1..Len(sortedModules[i].sections[j].sectionItems) |->
                            sortedModules[i].sections[j].sectionItems[k].sectionItemId]])]),
      firstModule |-> IF fm = 0 THEN Null ELSE sortedModules[fm].moduleId,
      firstSection |-> IF fs = 0 THEN Null ELSE sortedModules[fm].sections[fs].sectionId,
      firstSectionItem |->
        IF fi = 0 THEN Null
        ELSE sortedModules[fm].sections[fs].sectionItems[fi].sectionItemId]

\* A getNextData that links no element to the one after it.
NextOf_NoNext(xs, i, field) == Null

\* Id of the element after position i of xs, or null.
NextOf(xs, i, field) == IF i + 1 <= Len(xs) THEN xs[i + 1][field] ELSE Null

\* xs.find(x => x.sequence === 1)?.[field] || null
FirstId(xs, field) ==
  LET f == FindSequence(xs, 1) IN IF f = 0 THEN Null ELSE xs[f][field]

\* Next pointers computed over the sections and the items of the whole
\* course instead of over those of one parent.
getNextData_AcrossParents(cd) ==
  LET secs == Flatten([i \in 1..Len(cd.modules) |->
                 [j \in 1..Len(cd.modules[i].sections) |->
                    [sectionId |-> cd.modules[i].sections[j].sectionId,
                     moduleId |-> cd.modules[i].moduleId,
                     sectionItemId |->
                       FirstId(cd.modules[i].sections[j].sectionItems,
                               "sectionItemId")]]])
      items == Flatten([i \in 1..Len(cd.modules) |->
                 Flatten([j \in 1..Len(cd.modules[i].sections) |->
                    [k \in 1..Len(cd.modules[i].sections[j].sectionItems) |->
                       [sectionItemId |->
                          cd.modules[i].sections[j].sectionItems[k].sectionItemId,
                        sectionId |-> cd.modules[i].sections[j].sectionId]]])])
  IN [moduleNextData |->
        [i \in 1..Len(cd.modules) |->
           [moduleId |-> cd.modules[i].moduleId,
            nextModuleId |-> NextOf(cd.modules, i, "moduleId"),
            courseInstanceId |-> cd.courseInstanceId,
            sectionId |-> FirstId(cd.modules[i].sections, "sectionId")]],
      sectionNextData |->
        [n \in 1..Len(secs) |->
           [sectionId |-> secs[n].sectionId,
            nextSectionId |-> NextOf(secs, n, "sectionId"),
            moduleId |-> secs[n].moduleId,
            sectionItemId |-> secs[n].sectionItemId]],
      sectionItemNextData |->
        [n \in 1..Len(items) |->
           [sectionItemId |-> items[n].sectionItemId,
            nextSectionItemId |-> NextOf(items, n, "sectionItemId"),
            sectionId |-> items[n].sectionId]]]

getNextData(cd) ==
  [moduleNextData |->
     [i \in 1..Len(cd.modules) |->
        [moduleId |-> cd.modules[i].moduleId,
         nextModuleId |-> NextOf(cd.modules, i, "moduleId"),
         courseInstanceId |-> cd.courseInstanceId,
         sectionId |-> FirstId(cd.modules[i].sections, "sectionId")]],
   sectionNextData |->
     Flatten([i \in 1..Len(cd.modules) |->
        [j \in 1..Len(cd.modules[i].sections) |->
           [sectionId |-> cd.modules[i].sections[j].sectionId,
            nextSectionId |-> NextOf(cd.modules[i].sections, j, "sectionId"),
            moduleId |-> cd.modules[i].moduleId,
            sectionItemId |->
              FirstId(cd.modules[i].sections[j].sectionItems, "sectionItemId")]]]),
   sectionItemNextData |->
     Flatten([i \in 1..Len(cd.modules) |->
        Flatten([j \in 1..Len(cd.modules[i].sections) |->
           [k \in 1..Len(cd.modules[i].sections[j].sectionItems) |->
              [sectionItemId |-> cd.modules[i].sections[j].sectionItems[k].sectionItemId,
               nextSectionItemId |->
                 NextOf(cd.modules[i].sections[j].sectionItems, k, "sectionItemId"),
               sectionId |-> cd.modules[i].sections[j].sectionId]]])])]

(***************************************************************************)
(* The store (prisma schema): every table is a function from the keys of   *)
(* its rows.  Progress rows are keyed by (studentId, id, courseInstanceId),*)
(* course progress and TotalProgress by (studentId, courseInstanceId),     *)
(* adjacency rows by the id of their entity.                               *)
(***************************************************************************)
EmptyTable == <<>>

Put(t, k, v) == [x \in DOMAIN t \cup {k} |-> IF x = k THEN v ELSE t[x]]

EmptyStore ==
  [total |-> EmptyTable, course |-> EmptyTable, module |-> EmptyTable,
   section |-> EmptyTable, sectionItem |-> EmptyTable,
   moduleNext |-> EmptyTable, sectionNext |-> EmptyTable,
   sectionItemNext |-> EmptyTable]

ProgressKey(level, id, s, c) == IF level = "course" THEN <<s, c>> ELSE <<s, id, c>>

\* Stored status of an entity, or null when the student has no row for it.
StatusOf(d, level, id, s, c) ==
  IF ProgressKey(level, id, s, c) \in DOMAIN d[level]
  THEN d[level][ProgressKey(level, id, s, c)] ELSE Null

(***************************************************************************)
(* CourseProgressRepository (the storage collaborator)                     *)
(***************************************************************************)
\* markProgress(level, entityId, studentId, courseInstanceId, status): sets
\* the status of an existing row; a missing row is NotFound and nothing is
\* written.  The service's calls (courseProgressRepo.update*Progress) name
\* the row only; the status of each call is the one its comment in the
\* service states ("Mark the next section as IN_PROGRESS").
markProgress(d, level, id, s, c, status) ==
  IF ProgressKey(level, id, s, c) \in DOMAIN d[level]
  THEN [ok |-> TRUE,
        db |-> [d EXCEPT ![level][ProgressKey(level, id, s, c)] = status]]
  ELSE [ok |-> FALSE, db |-> d]

\* getAdjacency(level, entityId): is there an adjacency row for the entity.
hasAdjacency(d, table, id) == id \in DOMAIN d[table]

\* getAdjacency(level, entityId): the row { nextId, firstChildId, parentId }.
getAdjacency(d, table, id) == d[table][id]

(***************************************************************************)
(* prisma.sectionItemNext.findFirst({where: {nextSectionItemId}}): the     *)
(* rows that point at the item; without an orderBy the store returns any   *)
(* one of them, `scan` being the row its scan meets first.                 *)
(***************************************************************************)
Predecessors(d, item) ==
  {x \in DOMAIN d.sectionItemNext : d.sectionItemNext[x].nextSectionItemId = item}

findFirstPrevious(d, item, scan) ==
  IF Predecessors(d, item) = {} THEN Null
  ELSE IF scan \in Predecessors(d, item) THEN scan
  ELSE CHOOSE x \in Predecessors(d, item) : TRUE

(***************************************************************************)
(* UpdatedEntities.  A null list is written <<>>: the code never builds an  *)
(* empty list, so the two do not collide.                                  *)
(***************************************************************************)
UpdatedEntities(course, modules, sections, sectionItems) ==
  [course |-> course, modules |-> modules, sections |-> sections,
   sectionItems |-> sectionItems]

updateEntityListFields(u, upd) ==
  [u EXCEPT !.modules = IF upd.modules # <<>> THEN u.modules \o upd.modules
                        ELSE u.modules,
            !.sections = IF upd.sections # <<>> THEN u.sections \o upd.sections
                         ELSE u.sections,
            !.sectionItems = IF upd.sectionItems # <<>>
                             THEN u.sectionItems \o upd.sectionItems
                             ELSE u.sectionItems]

\* updateCourseProgress's return value.
CourseResult(c) == UpdatedEntities(c, <<>>, <<>>, <<>>)

\* updateModuleProgress's return values.
ModuleResultNext(m, nm, fs, fi) == UpdatedEntities(Null, <<m, nm>>, <<fs>>, <<fi>>)
\* A report that leaves the completed module out.
ModuleResultLast_NoModule(c, m) == CourseResult(c)

ModuleResultLast(c, m) ==
  updateEntityListFields(CourseResult(c),
    [modules |-> <<m>>, sections |-> <<>>, sectionItems |-> <<>>])

\* A report that leaves the next section out.
SectionResultNext_OnlySection(sec, ns, fi) == UpdatedEntities(Null, <<>>, <<sec>>, <<fi>>)

\* updateSectionProgress's return values.
SectionResultNext(sec, ns, fi) == UpdatedEntities(Null, <<>>, <<sec, ns>>, <<fi>>)
SectionResultLast(u, sec) == [u EXCEPT !.sections = <<sec>>]

\* A report that fills a field besides sectionItems.
ItemResultPlain_WithSection(item) == UpdatedEntities(Null, <<>>, <<item>>, <<item>>)

\* What updateSectionItemProgress pushes for one item.
ItemResultPlain(item) == UpdatedEntities(Null, <<>>, <<>>, <<item>>)

\* A report that leaves the next item out.
ItemResultNext_OnlyItem(item, ni) == UpdatedEntities(Null, <<>>, <<>>, <<item>>)

ItemResultNext(item, ni) == UpdatedEntities(Null, <<>>, <<>>, <<item, ni>>)
ItemResultSection(u, item) ==
  updateEntityListFields(u,
    [modules |-> <<>>, sections |-> <<>>, sectionItems |-> <<item>>])

(***************************************************************************)
(* One call of updateSectionItemProgress as a process: `pc` is the store   *)
(* round trip (await) it performs next, the other fields are its locals.   *)
(***************************************************************************)
NewCall(c, s, itemIds, cascade, scan) ==
  [pc |-> IF itemIds = <<>> THEN "done" ELSE "findPrevious",
   courseInstanceId |-> c, studentId |-> s, sectionItemIds |-> itemIds,
   cascade |-> cascade, scan |-> scan,
   i |-> 1, previous |-> Null, sectionId |-> Null, moduleId |-> Null,
   nextId |-> Null, firstSectionId |-> Null, firstItemId |-> Null,
   updates |-> <<>>, error |-> Null, writes |-> 0]

IdleCall == [NewCall(Null, Null, <<>>, FALSE, Null) EXCEPT !.pc = "idle"]

Running(p) == p.pc \notin {"idle", "done", "failed"}

\* throw: the catch blocks log and rethrow, the call ends with the error.
Throw(d, p, err) == [db |-> d, p |-> [p EXCEPT !.pc = "failed", !.error = err]]

\* A read: the store is unchanged, the call moves on.
Goto(d, p, q) == [db |-> d, p |-> q]

\* A loop that ends after its first iteration.
PushAndContinue_OnlyFirst(d, p, u) ==
  [db |-> d, p |-> [p EXCEPT !.updates = Append(p.updates, u), !.pc = "done"]]

\* updates.push(u), then the next iteration of the for loop.
PushAndContinue(d, p, u) ==
  [db |-> d,
   p |-> [p EXCEPT !.updates = Append(p.updates, u),
                   !.i = p.i + 1,
                   !.pc = IF p.i + 1 > Len(p.sectionItemIds) THEN "done"
                          ELSE "findPrevious",
                   !.previous = Null, !.sectionId = Null, !.moduleId = Null,
                   !.nextId = Null, !.firstSectionId = Null,
                   !.firstItemId = Null]]

\* A write through the repository, counted; a missing row is NotFound.
\* On success the call goes on at `pc`.
WriteGoto(d, p, level, id, status, pc) ==
  LET w == markProgress(d, level, id, p.studentId, p.courseInstanceId, status)
  IN IF w.ok THEN Goto(w.db, p, [p EXCEPT !.writes = p.writes + 1, !.pc = pc])
     ELSE Throw(d, p, NotFound)

\* A write that reaches the row of the entity in every course instance of
\* the student.
WritePush_EveryCourse(d, p, level, id, status, u) ==
  LET w == markProgress(d, level, id, p.studentId, p.courseInstanceId, status)
      every == [k \in DOMAIN d[level] |->
                  IF k[1] = p.studentId /\ (level = "course" \/ k[2] = id)
                  THEN status ELSE d[level][k]]
  IN IF w.ok
     THEN PushAndContinue([d EXCEPT ![level] = every],
                          [p EXCEPT !.writes = p.writes + 1], u)
     ELSE Throw(d, p, NotFound)

\* On success the update u is pushed and the loop goes on.
WritePush(d, p, level, id, status, u) ==
  LET w == markProgress(d, level, id, p.studentId, p.courseInstanceId, status)
  IN IF w.ok THEN PushAndContinue(w.db, [p EXCEPT !.writes = p.writes + 1], u)
     ELSE Throw(d, p, NotFound)

\* The check written against INCOMPLETE: an IN_PROGRESS previous item passes.
GatingFails_OnlyIncomplete(d, p) ==
  StatusOf(d, "sectionItem", p.previous, p.studentId, p.courseInstanceId) = INCOMPLETE

\* previousItemProgress && previousItemProgress.progress !== COMPLETE
GatingFails(d, p) ==
  /\ StatusOf(d, "sectionItem", p.previous, p.studentId, p.courseInstanceId) # Null
  /\ StatusOf(d, "sectionItem", p.previous, p.studentId, p.courseInstanceId) # COMPLETE

\* The check placed after the update of the item instead of before it.
CheckPrevious_AfterMark(d, p) ==
  IF GatingFails(d, p)
  THEN Throw(markProgress(d, "sectionItem", p.sectionItemIds[p.i], p.studentId,
                          p.courseInstanceId, COMPLETE).db,
             p, GatingViolation)
  ELSE Goto(d, p, [p EXCEPT !.pc = "markItem"])

\* The gating check: the stored progress of the previous item is read and
\* the call throws, before it has written anything for the item, when that
\* progress is not COMPLETE.
CheckPrevious(d, p) ==
  IF GatingFails(d, p) THEN Throw(d, p, GatingViolation)
  ELSE Goto(d, p, [p EXCEPT !.pc = "markItem"])

StepItem(d, p) ==
  LET item == p.sectionItemIds[p.i] IN
  CASE p.pc = "findPrevious" ->
         LET prev == findFirstPrevious(d, item, p.scan)
         IN IF prev # Null
            THEN Goto(d, p, [p EXCEPT !.pc = "previousProgress", !.previous = prev])
            ELSE Goto(d, p, [p EXCEPT !.pc = "markItem"])
    [] p.pc = "previousProgress" -> CheckPrevious(d, p)
    [] p.pc = "markItem" ->
         IF p.cascade
         THEN WriteGoto(d, p, "sectionItem", item, COMPLETE, "itemDetails")
         ELSE WritePush(d, p, "sectionItem", item, COMPLETE, ItemResultPlain(item))
    [] p.pc = "itemDetails" ->
         IF ~hasAdjacency(d, "sectionItemNext", item) THEN Throw(d, p, NotFound)
         ELSE LET det == getAdjacency(d, "sectionItemNext", item)
              IN IF det.nextSectionItemId # Null
                 THEN Goto(d, p, [p EXCEPT !.pc = "markNextItem",
                                           !.nextId = det.nextSectionItemId])
                 ELSE Goto(d, p, [p EXCEPT !.pc = "markSection",
                                           !.sectionId = det.sectionId])
    [] p.pc = "markNextItem" ->
         WritePush(d, p, "sectionItem", p.nextId, IN_PROGRESS,
                   ItemResultNext(item, p.nextId))

StepSection(d, p) ==
  LET item == p.sectionItemIds[p.i] IN
  CASE p.pc = "markSection" ->
         WriteGoto(d, p, "section", p.sectionId, COMPLETE, "sectionDetails")
    [] p.pc = "sectionDetails" ->
         IF ~hasAdjacency(d, "sectionNext", p.sectionId) THEN Throw(d, p, NotFound)
         ELSE LET det == getAdjacency(d, "sectionNext", p.sectionId)
              IN IF det.nextSectionId # Null
                 THEN Goto(d, p, [p EXCEPT !.pc = "markNextSection",
                                           !.nextId = det.nextSectionId])
                 ELSE Goto(d, p, [p EXCEPT !.pc = "markModule",
                                           !.moduleId = det.moduleId])
    [] p.pc = "markNextSection" ->
         WriteGoto(d, p, "section", p.nextId, IN_PROGRESS, "nextSectionDetails")
    [] p.pc = "nextSectionDetails" ->
         IF ~hasAdjacency(d, "sectionNext", p.nextId) THEN Throw(d, p, NotFound)
         ELSE Goto(d, p, [p EXCEPT !.pc = "markNextSectionItem",
                            !.firstItemId =
                               getAdjacency(d, "sectionNext", p.nextId).sectionItemId])
    [] p.pc = "markNextSectionItem" ->
         WritePush(d, p, "sectionItem", p.firstItemId, IN_PROGRESS,
                   ItemResultSection(
                     SectionResultNext(p.sectionId, p.nextId, p.firstItemId), item))

StepModule(d, p) ==
  LET item == p.sectionItemIds[p.i] IN
  CASE p.pc = "markModule" ->
         WriteGoto(d, p, "module", p.moduleId, COMPLETE, "moduleDetails")
    [] p.pc = "moduleDetails" ->
         IF ~hasAdjacency(d, "moduleNext", p.moduleId) THEN Throw(d, p, NotFound)
         ELSE LET det == getAdjacency(d, "moduleNext", p.moduleId)
              IN IF det.nextModuleId # Null
                 THEN Goto(d, p, [p EXCEPT !.pc = "markNextModule",
                                           !.nextId = det.nextModuleId])
                 ELSE Goto(d, p, [p EXCEPT !.pc = "markCourse"])
    [] p.pc = "markNextModule" ->
         WriteGoto(d, p, "module", p.nextId, IN_PROGRESS, "nextModuleDetails")
    [] p.pc = "nextModuleDetails" ->
         IF ~hasAdjacency(d, "moduleNext", p.nextId) THEN Throw(d, p, NotFound)
         ELSE Goto(d, p, [p EXCEPT !.pc = "markNextModuleSection",
                            !.firstSectionId =
                               getAdjacency(d, "moduleNext", p.nextId).sectionId])
    [] p.pc = "markNextModuleSection" ->
         WriteGoto(d, p, "section", p.firstSectionId, IN_PROGRESS,
                   "nextModuleSectionDetails")
    [] p.pc = "nextModuleSectionDetails" ->
         IF ~hasAdjacency(d, "sectionNext", p.firstSectionId)
         THEN Throw(d, p, NotFound)
         ELSE Goto(d, p, [p EXCEPT !.pc = "markNextModuleItem",
                            !.firstItemId =
                               getAdjacency(d, "sectionNext",
                                            p.firstSectionId).sectionItemId])
    [] p.pc = "markNextModuleItem" ->
         WritePush(d, p, "sectionItem", p.firstItemId, IN_PROGRESS,
                   ItemResultSection(
                     SectionResultLast(
                       ModuleResultNext(p.moduleId, p.nextId, p.firstSectionId,
                                        p.firstItemId),
                       p.sectionId), item))

\* The course left as it is and the item processed again.
StepCourse_BackToItem(d, p) == Goto(d, p, [p EXCEPT !.pc = "markItem"])

\* updateCourseProgress: the course row is written and the call returns.
StepCourse(d, p) ==
  WritePush(d, p, "course", Null, COMPLETE,
            ItemResultSection(
              SectionResultLast(ModuleResultLast(p.courseInstanceId, p.moduleId),
                                p.sectionId), p.sectionItemIds[p.i]))

ItemPcs == {"findPrevious", "previousProgress", "markItem", "itemDetails",
            "markNextItem"}
SectionPcs == {"markSection", "sectionDetails", "markNextSection",
               "nextSectionDetails", "markNextSectionItem"}
ModulePcs == {"markModule", "moduleDetails", "markNextModule", "nextModuleDetails",
              "markNextModuleSection", "nextModuleSectionDetails",
              "markNextModuleItem"}

\* One round trip of a running call.
StepCall(d, p) ==
  CASE p.pc \in ItemPcs -> StepItem(d, p)
    [] p.pc \in SectionPcs -> StepSection(d, p)
    [] p.pc \in ModulePcs -> StepModule(d, p)
    [] p.pc = "markCourse" -> StepCourse(d, p)

\* The call run until it returns or throws.
RECURSIVE RunCall(_, _)
RunCall(d, p) ==
  IF ~Running(p) THEN [db |-> d, p |-> p]
  ELSE LET r == StepCall(d, p) IN RunCall(r.db, r.p)

\* The points a fault can cut the call short at: the store and the call after
\* each of its writes that is not its last round trip.
RECURSIVE Interruptions(_, _)
Interruptions(d, p) ==
  IF ~Running(p) THEN {}
  ELSE LET r == StepCall(d, p)
       IN (IF r.p.writes > p.writes /\ Running(r.p) THEN {r} ELSE {})
          \cup Interruptions(r.db, r.p)

(***************************************************************************)
(* initializeStudentProgress: the operations it queues, then the           *)
(* transaction that runs them.                                             *)
(***************************************************************************)
\* The flag set for the first module and cleared for the rest, whatever the
\* store holds.
RECURSIVE ModuleProgressList_FlagKept(_, _, _, _, _)
ModuleProgressList_FlagKept(mods, s, c, d, previousModuleComplete) ==
  IF mods = <<>> THEN <<>>
  ELSE <<IF previousModuleComplete THEN IN_PROGRESS ELSE INCOMPLETE>>
       \o ModuleProgressList_FlagKept(Tail(mods), s, c, d, FALSE)

\* The status queued for each module of the list, in the order of the list:
\* IN_PROGRESS when the previous module's stored status is COMPLETE (or for
\* the first one), read from the store as it is before the transaction.
RECURSIVE ModuleProgressList(_, _, _, _, _)
ModuleProgressList(mods, s, c, d, previousModuleComplete) ==
  IF mods = <<>> THEN <<>>
  ELSE <<IF previousModuleComplete THEN IN_PROGRESS ELSE INCOMPLETE>>
       \o ModuleProgressList(Tail(mods), s, c, d,
            StatusOf(d, "module", Head(mods).moduleId, s, c) = COMPLETE)

SectionProgress(moduleProgress, j) ==
  IF moduleProgress = IN_PROGRESS /\ j = 1 THEN IN_PROGRESS ELSE INCOMPLETE

ItemProgress(sectionProgress, k) ==
  IF sectionProgress = IN_PROGRESS /\ k = 1 THEN IN_PROGRESS ELSE INCOMPLETE

Row(s, id, c, progress) == [key |-> <<s, id, c>>, progress |-> progress]

moduleData(cd, s, d) ==
  LET mp == ModuleProgressList(cd.modules, s, cd.courseInstanceId, d, TRUE)
  IN [i \in 1..Len(cd.modules) |->
        Row(s, cd.modules[i].moduleId, cd.courseInstanceId, mp[i])]

sectionData(cd, s, d) ==
  LET mp == ModuleProgressList(cd.modules, s, cd.courseInstanceId, d, TRUE)
  IN Flatten([i \in 1..Len(cd.modules) |->
        [j \in 1..Len(cd.modules[i].sections) |->
           Row(s, cd.modules[i].sections[j].sectionId, cd.courseInstanceId,
               SectionProgress(mp[i], j))]])

sectionItemData(cd, s, d) ==
  LET mp == ModuleProgressList(cd.modules, s, cd.courseInstanceId, d, TRUE)
  IN Flatten([i \in 1..Len(cd.modules) |->
        Flatten([j \in 1..Len(cd.modules[i].sections) |->
           [k \in 1..Len(cd.modules[i].sections[j].sectionItems) |->
              Row(s, cd.modules[i].sections[j].sectionItems[k].sectionItemId,
                  cd.courseInstanceId,
                  ItemProgress(SectionProgress(mp[i], j), k))]])])

\* The upserts of the adjacency rows: update writes the next pointer alone,
\* create writes the whole row.
NextUpserts(table, data, idField, nextField, required) ==
  [i \in 1..Len(data) |->
     [op |-> "upsertNext", table |-> table, id |-> data[i][idField],
      nextField |-> nextField, required |-> required, create |-> data[i]]]

\* What the loop pushes to progressRecords for one student.
StudentOps(cd, s, d) ==
  <<[op |-> "upsertTotal", key |-> <<s, cd.courseInstanceId>>],
    [op |-> "upsertCourse", key |-> <<s, cd.courseInstanceId>>],
    [op |-> "createMany", table |-> "module", data |-> moduleData(cd, s, d)],
    [op |-> "createMany", table |-> "section", data |-> sectionData(cd, s, d)],
    [op |-> "createMany", table |-> "sectionItem",
     data |-> sectionItemData(cd, s, d)]>>
  \o NextUpserts("moduleNext", getNextData(cd).moduleNextData,
                 "moduleId", "nextModuleId", "sectionId")
  \o NextUpserts("sectionNext", getNextData(cd).sectionNextData,
                 "sectionId", "nextSectionId", "sectionItemId")
  \o NextUpserts("sectionItemNext", getNextData(cd).sectionItemNextData,
                 "sectionItemId", "nextSectionItemId", "sectionId")

\* progressRecords: extractAllIds has sorted the section and item arrays of
\* the course data in place before the loop reads them.
ProgressRecords(cd, d) ==
  Flatten([n \in 1..Len(cd.studentIds) |->
             StudentOps(SortedInPlace(cd), cd.studentIds[n], d)])

\* totalRecords as the loop counts it.
TotalRecords(cd, d) ==
  LET one(s) == 1 + Len(moduleData(SortedInPlace(cd), s, d))
                  + Len(sectionData(SortedInPlace(cd), s, d))
                  + Len(sectionItemData(SortedInPlace(cd), s, d))
      RECURSIVE sum(_)
      sum(n) == IF n = 0 THEN 0 ELSE sum(n - 1) + one(cd.studentIds[n])
  IN sum(Len(cd.studentIds))

\* createMany as an upsert: rows whose key exists are overwritten.
RECURSIVE createMany_Overwrite(_, _)
createMany_Overwrite(t, data) ==
  IF data = <<>> THEN t
  ELSE createMany_Overwrite(Put(t, Head(data).key, Head(data).progress), Tail(data))

\* createMany({data, skipDuplicates: true}): rows whose key exists are skipped.
RECURSIVE createMany(_, _)
createMany(t, data) ==
  IF data = <<>> THEN t
  ELSE createMany(IF Head(data).key \in DOMAIN t THEN t
                  ELSE Put(t, Head(data).key, Head(data).progress),
                  Tail(data))

\* One queued operation applied to the store.  A create whose required
\* column (String, not String?) is null is rejected by the store.
ApplyOp(d, o) ==
  CASE o.op = "upsertTotal" ->
         [ok |-> TRUE, db |-> [d EXCEPT !.total = Put(d.total, o.key, 0)]]
    [] o.op = "upsertCourse" ->
         [ok |-> TRUE,
          db |-> IF o.key \in DOMAIN d.course THEN d
                 ELSE [d EXCEPT !.course = Put(d.course, o.key, IN_PROGRESS)]]
    [] o.op = "createMany" ->
         [ok |-> TRUE, db |-> [d EXCEPT ![o.table] = createMany(d[o.table], o.data)]]
    [] o.op = "upsertNext" ->
         IF o.id \in DOMAIN d[o.table]
         THEN [ok |-> TRUE,
               db |-> [d EXCEPT ![o.table][o.id][o.nextField] = o.create[o.nextField]]]
         ELSE IF o.create[o.required] = Null THEN [ok |-> FALSE, db |-> d]
         ELSE [ok |-> TRUE,
               db |-> [d EXCEPT ![o.table] = Put(d[o.table], o.id, o.create)]]

\* The operations applied in order; the one numbered failAt fails (0: none).
RECURSIVE ApplyAll(_, _, _, _)
ApplyAll(d, ops, n, failAt) ==
  IF n > Len(ops) THEN [ok |-> TRUE, db |-> d]
  ELSE IF n = failAt THEN [ok |-> FALSE, db |-> d]
  ELSE LET r == ApplyOp(d, ops[n])
       IN IF r.ok THEN ApplyAll(r.db, ops, n + 1, failAt) ELSE r

\* The operations awaited one by one instead of in a transaction: what was
\* written before the failure stays.
Transaction_NoRollback(d, ops, failAt) == ApplyAll(d, ops, 1, failAt)

\* prisma.$transaction(operations): all of them, or none.
Transaction(d, ops, failAt) ==
  LET r == ApplyAll(d, ops, 1, failAt)
  IN IF r.ok THEN r ELSE [ok |-> FALSE, db |-> d]

initializeStudentProgress(d, cd, failAt) ==
  LET t == Transaction(d, ProgressRecords(cd, d), failAt)
  IN IF t.ok
     THEN [db |-> t.db, result |-> OK,
           studentCount |-> Len(cd.studentIds),
           totalRecords |-> TotalRecords(cd, d)]
     ELSE [db |-> t.db, result |-> InitializationFailed,
           studentCount |-> 0, totalRecords |-> 0]

(***************************************************************************)
(* The worlds the model is run in: the students, the course data the       *)
(* callers pass to initializeStudentProgress and the item arrays they pass *)
(* to updateSectionItemProgress.                                           *)
(***************************************************************************)
\* Two modules; the first has a section of two items and a section of one,
\* the second one section of one item.
ModulesA ==
  <<Module("M1", 1,
      <<Section("S1", 1, <<SectionItem("I1", 1), SectionItem("I2", 2)>>),
        Section("S2", 2, <<SectionItem("I3", 1)>>)>>),
    Module("M2", 2,
      <<Section("S3", 1, <<SectionItem("I4", 1)>>)>>)>>

\* The same curriculum with every array listed in descending sequence.
ModulesAReversed ==
  <<Module("M2", 2,
      <<Section("S3", 1, <<SectionItem("I4", 1)>>)>>),
    Module("M1", 1,
      <<Section("S2", 2, <<SectionItem("I3", 1)>>),
        Section("S1", 1, <<SectionItem("I2", 2), SectionItem("I1", 1)>>)>>)>>

\* Two sections in one module: a section of one item, then one of two.
ModulesF ==
  <<Module("M1", 1,
      <<Section("S1", 1, <<SectionItem("I1", 1)>>),
        Section("S2", 2, <<SectionItem("I2", 1), SectionItem("I3", 2)>>)>>)>>

\* Modules M1, M2 of two sections each, of two items each.
Modules222 ==
  <<Module("M1", 1,
      <<Section("M1S1", 1, <<SectionItem("M1S1I1", 1), SectionItem("M1S1I2", 2)>>),
        Section("M1S2", 2, <<SectionItem("M1S2I1", 1), SectionItem("M1S2I2", 2)>>)>>),
    Module("M2", 2,
      <<Section("M2S1", 1, <<SectionItem("M2S1I1", 1), SectionItem("M2S1I2", 2)>>),
        Section("M2S2", 2, <<SectionItem("M2S2I1", 1), SectionItem("M2S2I2", 2)>>)>>)>>

\* The ids of the section items of the course data.
ItemsOf(cd) ==
  UNION {UNION {Range([k \in 1..Len(cd.modules[i].sections[j].sectionItems) |->
                         cd.modules[i].sections[j].sectionItems[k].sectionItemId]) :
                  j \in 1..Len(cd.modules[i].sections)} :
           i \in 1..Len(cd.modules)}

\* The arrays of at most n elements of S.
RECURSIVE SeqsUpTo(_, _)
SeqsUpTo(S, n) ==
  IF n = 0 THEN {<<>>}
  ELSE SeqsUpTo(S, n - 1)
       \cup {Append(q, x) : q \in {r \in SeqsUpTo(S, n - 1) : Len(r) = n - 1}, x \in S}

MakeWorld(students, catalog, maxItems, cascades, faults, bounded) ==
  [students |-> students,
   cascades |-> cascades,
   faults |-> faults,
   catalog |-> catalog,
   courses |-> {cd.courseInstanceId : cd \in catalog},
   itemIdArrays |-> SeqsUpTo(UNION {ItemsOf(cd) : cd \in catalog}, maxItems) \ {<<>>},
   bounded |-> bounded]

\* One student, one curriculum, any number of calls.
WorldA ==
  MakeWorld({"s1"}, {CourseProgressData("c1", <<"s1">>, ModulesA)},
            MaxItemsPerCall, BOOLEAN, TRUE, FALSE)

\* Two students, the curriculum listed in order and in reverse, a bounded
\* number of calls.
WorldB ==
  MakeWorld({"s1", "s2"},
            {CourseProgressData("c1", <<"s1", "s2">>, ModulesA),
             CourseProgressData("c1", <<"s2", "s1">>, ModulesAReversed)},
            1, BOOLEAN, TRUE, TRUE)

\* The end-to-end scenario: one student, one item per call, cascade = true,
\* a store that commits every transaction.
World222 ==
  MakeWorld({"s1"}, {CourseProgressData("c1", <<"s1">>, Modules222)},
            1, {TRUE}, FALSE, FALSE)

\* One student and longer arrays, for calls that are interrupted and retried.
WorldF ==
  MakeWorld({"s1"}, {CourseProgressData("c1", <<"s1">>, ModulesF)},
            MaxItemsPerRetriedCall, BOOLEAN, FALSE, FALSE)

\* One student, one item per call and a bounded number of calls, for calls
\* that run at the same time.
WorldC ==
  MakeWorld({"s1"}, {CourseProgressData("c1", <<"s1">>, ModulesA)},
            1, BOOLEAN, FALSE, TRUE)

\* A course whose curriculum changes between initializations: a first cohort
\* is initialized over items I1, I2; a second one after I1 has been replaced
\* by I3; the first one again after I2 has been moved before I1.
ModulesV1 ==
  <<Module("M1", 1, <<Section("S1", 1, <<SectionItem("I1", 1), SectionItem("I2", 2)>>)>>)>>

ModulesV2 ==
  <<Module("M1", 1, <<Section("S1", 1, <<SectionItem("I3", 1), SectionItem("I2", 2)>>)>>)>>

ModulesV3 ==
  <<Module("M1", 1, <<Section("S1", 1, <<SectionItem("I1", 2), SectionItem("I2", 1)>>)>>)>>

WorldV ==
  MakeWorld({"s1", "s2"},
            {CourseProgressData("c1", <<"s1">>, ModulesV1),
             CourseProgressData("c1", <<"s2">>, ModulesV2),
             CourseProgressData("c1", <<"s1">>, ModulesV3)},
            1, BOOLEAN, FALSE, TRUE)

\* A course that gets a second module after its students were initialized:
\* module M1 of one item, then M1 followed by a new module M2 whose sections
\* and items are listed in descending sequence; a bounded number of calls.
ModulesP1 ==
  <<Module("M1", 1, <<Section("S1", 1, <<SectionItem("I1", 1)>>)>>)>>

ModulesP2 ==
  <<Module("M1", 1, <<Section("S1", 1, <<SectionItem("I1", 1)>>)>>),
    Module("M2", 2,
      <<Section("S3", 2, <<SectionItem("I4", 1)>>),
        Section("S2", 1, <<SectionItem("I3", 2), SectionItem("I2", 1)>>)>>)>>

WorldP ==
  MakeWorld({"s1", "s2"},
            {CourseProgressData("c1", <<"s1", "s2">>, ModulesP1),
             CourseProgressData("c1", <<"s1", "s2">>, ModulesP2)},
            1, BOOLEAN, FALSE, TRUE)

\* One student, arrays of one or two items and a bounded number of calls,
\* for a call followed one round trip at a time.
WorldS ==
  MakeWorld({"s1"}, {CourseProgressData("c1", <<"s1">>, ModulesA)},
            2, BOOLEAN, FALSE, TRUE)

\* Two students in course instance c1 and one of them in c2 as well, over
\* the same curriculum; a bounded number of calls.
WorldT ==
  MakeWorld({"s1", "s2"},
            {CourseProgressData("c1", <<"s1", "s2">>, ModulesF),
             CourseProgressData("c2", <<"s1">>, ModulesF)},
            1, BOOLEAN, FALSE, TRUE)

\* The world a behaviour runs in, by the name held in env.
World ==
  CASE env = "A" -> WorldA
    [] env = "B" -> WorldB
    [] env = "222" -> World222
    [] env = "F" -> WorldF
    [] env = "C" -> WorldC
    [] env = "V" -> WorldV
    [] env = "P" -> WorldP
    [] env = "S" -> WorldS
    [] env = "T" -> WorldT

\* Rows the scan of findFirst can meet first when an item has several
\* rows pointing at it; null when the choice does not matter.
ScanChoices(d) ==
  {Null} \cup {x \in DOMAIN d.sectionItemNext :
                 \E y \in DOMAIN d.sectionItemNext :
                    /\ y # x
                    /\ d.sectionItemNext[x].nextSectionItemId # Null
                    /\ d.sectionItemNext[y].nextSectionItemId
                         = d.sectionItemNext[x].nextSectionItemId}

(***************************************************************************)
(* State                                                                   *)
(*   db     the store                                                      *)
(*   last   the call that has just ended and has not been handed back to   *)
(*          its caller yet: its arguments, the store it started from and   *)
(*          what it returns                                                *)
(*   calls  the calls in flight when calls are run one round trip at a time*)
(*   env    the name of the world                                          *)
(***************************************************************************)
NoCourseData == CourseProgressData(Null, <<>>, <<>>)

\* extractAllIds of no course data.
NoIds ==
  [modules |-> <<>>, sections |-> <<>>, sectionItems |-> <<>>,
   firstModule |-> Null, firstSection |-> Null, firstSectionItem |-> Null]

NoCall ==
  [op |-> "none", n |-> 0, cd |-> NoCourseData, call |-> IdleCall,
   failAt |-> 0, pre |-> EmptyStore, result |-> Null, updates |-> <<>>, at |-> 0,
   studentCount |-> 0, totalRecords |-> 0, ids |-> NoIds]

Slots == {1, 2}

\* Stores a deployment can be in before the first initialization: no row
\* at all, or a TotalProgress row left for a student.
InitialStores(w) ==
  {EmptyStore}
  \cup {[EmptyStore EXCEPT !.total = Put(EmptyTable, <<s, c>>, SomeProgress)] :
          s \in w.students, c \in w.courses}

InitWorld(name, w) ==
  /\ env = name
  /\ db \in InitialStores(w)
  /\ last = NoCall
  /\ calls = [i \in Slots |-> IdleCall]

Init == InitWorld("A", WorldA)

NoneInFlight == \A i \in Slots : calls[i].pc = "idle"

Count == IF World.bounded THEN last.n + 1 ELSE 0

\* The service takes a call when the previous one has been handed back.
CanCall ==
  /\ last.op = "none"
  /\ NoneInFlight
  /\ World.bounded => last.n < MaxCalls

Outcome(p) == IF p.pc = "done" THEN OK ELSE p.error

\* return updates: a call that throws returns nothing.
Returned(p) == IF p.pc = "done" THEN p.updates ELSE <<>>

\* initializeStudentProgress(courseData); failAt is the queued operation at
\* which the store fails the transaction, 0 when it commits.
Initialize(cd, failAt) ==
  /\ CanCall
  /\ LET r == initializeStudentProgress(db, cd, failAt)
     IN /\ db' = r.db
        /\ last' = [NoCall EXCEPT !.op = "initialize", !.n = Count, !.cd = cd,
                                  !.failAt = failAt,
                                  !.pre = db, !.result = r.result,
                                  !.studentCount = r.studentCount,
                                  !.totalRecords = r.totalRecords]
  /\ UNCHANGED <<calls, env>>

\* updateSectionItemProgress(courseInstanceId, studentId, sectionItemIds,
\* cascade), run to its end with no other call in between.
CompleteSectionItems(c, s, itemIds, cascade, scan) ==
  /\ CanCall
  /\ LET p == NewCall(c, s, itemIds, cascade, scan)
         r == RunCall(db, p)
     IN /\ db' = r.db
        /\ last' = [NoCall EXCEPT !.op = "complete", !.n = Count, !.call = p,
                                  !.pre = db, !.result = Outcome(r.p),
                                  !.updates = Returned(r.p), !.at = r.p.i]
  /\ UNCHANGED <<calls, env>>

\* The promise settles: the caller has the result (or the error) and the
\* service waits for the next call.
Return ==
  /\ last.op \in {"initialize", "complete", "retry", "extract"}
  /\ last' = [NoCall EXCEPT !.n = last.n]
  /\ UNCHANGED <<db, calls, env>>

\* The queued operations at which the store of the world can fail.
FailPoints(cd) ==
  IF World.faults THEN 0..Len(ProgressRecords(cd, db)) ELSE {0}

InitializeAny ==
  /\ CanCall
  /\ \E cd \in World.catalog : \E failAt \in FailPoints(cd) : Initialize(cd, failAt)

CompleteAny ==
  /\ CanCall
  /\ \E c \in World.courses, s \in World.students, itemIds \in World.itemIdArrays,
        cascade \in World.cascades, scan \in ScanChoices(db) :
       CompleteSectionItems(c, s, itemIds, cascade, scan)

Next == InitializeAny \/ CompleteAny \/ Return

Spec == Init /\ [][Next]_vars

\* Two students and course data listed out of sequence order.
InitB == InitWorld("B", WorldB)
SpecB == InitB /\ [][Next]_vars

\* The 2x2x2 scenario.
Init222 == InitWorld("222", World222)
Spec222 == Init222 /\ [][Next]_vars

\* A fault of the store or of the process ends the call after one of its
\* writes, before its next round trip: the writes made so far stay (no
\* transaction spans the call) and the caller gets the fault.
CompleteInterrupted(c, s, itemIds, cascade, scan) ==
  /\ CanCall
  /\ LET p == NewCall(c, s, itemIds, cascade, scan)
     IN \E r \in Interruptions(db, p) :
          /\ db' = r.db
          /\ last' = [NoCall EXCEPT !.op = "interrupted", !.n = Count, !.call = p,
                                    !.pre = db, !.result = Fault, !.at = r.p.i]
  /\ UNCHANGED <<calls, env>>

\* The caller invokes the interrupted call again with the same arguments,
\* before any other call; last.pre stays the store the first attempt
\* started from.
Retry ==
  /\ last.op = "interrupted"
  /\ NoneInFlight
  /\ LET r == RunCall(db, last.call)
     IN /\ db' = r.db
        /\ last' = [last EXCEPT !.op = "retry", !.result = Outcome(r.p),
                                !.updates = Returned(r.p), !.at = r.p.i]
  /\ UNCHANGED <<calls, env>>

CompleteInterruptedAny ==
  /\ CanCall
  /\ \E c \in World.courses, s \in World.students, itemIds \in World.itemIdArrays,
        cascade \in World.cascades, scan \in ScanChoices(db) :
       CompleteInterrupted(c, s, itemIds, cascade, scan)

NextFault == InitializeAny \/ CompleteAny \/ CompleteInterruptedAny \/ Retry \/ Return

\* Calls that faults interrupt and callers retry.
InitF == InitWorld("F", WorldF)
SpecFault == InitF /\ [][NextFault]_vars

\* Two requests for the same student and course arrive together: both calls
\* of updateSectionItemProgress are started, neither has made a round trip.
CompleteTogether(c, s, itemIds1, cascade1, itemIds2, cascade2) ==
  /\ CanCall
  /\ calls' = [calls EXCEPT ![1] = NewCall(c, s, itemIds1, cascade1, Null),
                            ![2] = NewCall(c, s, itemIds2, cascade2, Null)]
  /\ last' = [NoCall EXCEPT !.op = "together", !.n = Count, !.pre = db]
  /\ UNCHANGED <<db, env>>

\* The event loop resumes one of the started calls at the await it waits
\* on: the call makes that round trip and waits on the next one.
Resume(i) ==
  /\ Running(calls[i])
  /\ LET r == StepCall(db, calls[i])
     IN /\ db' = r.db
        /\ calls' = [calls EXCEPT ![i] = r.p]
  /\ UNCHANGED <<last, env>>

BothEnded == \A i \in Slots : calls[i].pc \in {"done", "failed"}

\* Both promises have settled.
ReturnBoth ==
  /\ last.op = "together"
  /\ BothEnded
  /\ calls' = [i \in Slots |-> IdleCall]
  /\ last' = [NoCall EXCEPT !.n = last.n]
  /\ UNCHANGED <<db, env>>

CompleteTogetherAny ==
  /\ CanCall
  /\ \E c \in World.courses, s \in World.students,
        itemIds1 \in World.itemIdArrays, itemIds2 \in World.itemIdArrays,
        cascade1 \in World.cascades, cascade2 \in World.cascades :
       CompleteTogether(c, s, itemIds1, cascade1, itemIds2, cascade2)

ResumeAny == \E i \in Slots : Resume(i)

NextConc ==
  InitializeAny \/ CompleteAny \/ CompleteTogetherAny \/ ResumeAny \/ ReturnBoth
    \/ Return

\* Calls that run at the same time.
InitC == InitWorld("C", WorldC)
SpecConc == InitC /\ [][NextConc]_vars

\* Initializations over a curriculum that changes.
InitV == InitWorld("V", WorldV)
SpecV == InitV /\ [][Next]_vars

\* Initializations before and after a module is appended.
InitP == InitWorld("P", WorldP)
SpecP == InitP /\ [][Next]_vars

\* updateSectionItemProgress is called: the call is started and has made no
\* round trip yet.
Start(c, s, itemIds, cascade, scan) ==
  /\ CanCall
  /\ calls' = [calls EXCEPT ![1] = NewCall(c, s, itemIds, cascade, scan)]
  /\ last' = [NoCall EXCEPT !.op = "started", !.n = Count, !.pre = db,
                            !.call = NewCall(c, s, itemIds, cascade, scan)]
  /\ UNCHANGED <<db, env>>

StartAny ==
  /\ CanCall
  /\ \E c \in World.courses, s \in World.students, itemIds \in World.itemIdArrays,
        cascade \in World.cascades, scan \in ScanChoices(db) :
       Start(c, s, itemIds, cascade, scan)

\* The started call has returned or thrown: its promise settles.
Settle ==
  /\ last.op = "started"
  /\ calls[1].pc \in {"done", "failed"}
  /\ last' = [last EXCEPT !.op = "complete", !.result = Outcome(calls[1]),
                          !.updates = Returned(calls[1]), !.at = calls[1].i]
  /\ calls' = [i \in Slots |-> IdleCall]
  /\ UNCHANGED <<db, env>>

NextSteps == InitializeAny \/ StartAny \/ ResumeAny \/ Settle \/ Return

\* One call at a time, one round trip at a time.  The store answers every
\* request, the event loop resumes the call that awaits the answer and
\* settles the promise of a call that has ended.
InitS == InitWorld("S", WorldS)
SpecSteps == InitS /\ [][NextSteps]_vars /\ WF_vars(ResumeAny) /\ WF_vars(Settle)

\* Two students and two course instances.
InitT == InitWorld("T", WorldT)
SpecT == InitT /\ [][Next]_vars

\* The arrangements of the elements of an array.
Perms(xs) ==
  {q \in [1..Len(xs) -> Range(xs)] : \A x \in Range(xs) : \E i \in 1..Len(xs) : q[i] = x}

\* The section with its items listed in any order.
ItemListings(sec) ==
  {[sec EXCEPT !.sectionItems = q] : q \in Perms(sec.sectionItems)}

\* The module with its sections, and their items, listed in any order.
SectionListings(m) ==
  {[m EXCEPT !.sections = q] :
     q \in UNION {Perms(f) :
                    f \in {g \in [1..Len(m.sections) ->
                                    UNION {ItemListings(m.sections[j]) :
                                             j \in 1..Len(m.sections)}] :
                             \A j \in 1..Len(m.sections) :
                                g[j] \in ItemListings(m.sections[j])}}}

\* The modules, their sections and their items listed in any order.
Listings(mods) ==
  UNION {Perms(f) :
           f \in {g \in [1..Len(mods) ->
                           UNION {SectionListings(mods[i]) : i \in 1..Len(mods)}] :
                    \A i \in 1..Len(mods) : g[i] \in SectionListings(mods[i])}}

\* The modules numbered from 2: no module has sequence 1.
WithoutFirst(mods) ==
  [i \in 1..Len(mods) |-> [mods[i] EXCEPT !.sequence = mods[i].sequence + 1]]

\* Course data a caller can pass for the 2x2x2 curriculum.
ExtractInputs ==
  {CourseProgressData("c1", <<"s1">>, q) :
     q \in Listings(Modules222) \cup Listings(WithoutFirst(Modules222))}

\* extractAllIds(courseProgressData)
Extract(cd) ==
  /\ CanCall
  /\ last' = [NoCall EXCEPT !.op = "extract", !.n = Count, !.cd = cd,
                            !.ids = extractAllIds(cd)]
  /\ UNCHANGED <<db, calls, env>>

ExtractAny == \E cd \in ExtractInputs : Extract(cd)

NextExtract == ExtractAny \/ Return

\* extractAllIds over the listings of the 2x2x2 curriculum.
SpecExtract == Init222 /\ [][NextExtract]_vars

(***************************************************************************)
(* Properties                                                              *)
(***************************************************************************)
ProgressTables == {"course", "module", "section", "sectionItem"}

Completed == last.op = "complete"

\* The call that has just ended was for one item.
SingleItem == Completed /\ Len(last.call.sectionItemIds) = 1

\* The row findFirst returned for the first item of the call, in the store
\* the call started from.
PreviousOfFirst ==
  findFirstPrevious(last.pre, last.call.sectionItemIds[1], last.call.scan)

\* The first item of the call has a previous item whose stored status is
\* not COMPLETE.
PreviousNotComplete ==
  /\ PreviousOfFirst # Null
  /\ StatusOf(last.pre, "sectionItem", PreviousOfFirst, last.call.studentId,
              last.call.courseInstanceId) \in {INCOMPLETE, IN_PROGRESS}

\* C1: a call with a single item whose previous item has a stored status
\* other than COMPLETE fails with GatingViolation and leaves the store as it
\* was.
C1_GatingRejectsWithoutWrites ==
  (SingleItem /\ PreviousNotComplete)
    => (last.result = GatingViolation /\ db = last.pre)

C1_Witness ==
  /\ SingleItem /\ PreviousNotComplete
  /\ last.result = GatingViolation
  /\ last.pre.sectionItem # EmptyTable

\* C2: no call of updateSectionItemProgress moves a progress row of any
\* level backward in INCOMPLETE < IN_PROGRESS < COMPLETE.
C2_NeverRegresses ==
  Completed =>
    \A level \in ProgressTables : \A k \in DOMAIN last.pre[level] :
      Rank(db[level][k]) >= Rank(last.pre[level][k])

\* C3 as stated: a call that fails leaves the store exactly as it was before
\* the call.
C3_FailedCallLeavesStore ==
  (Completed /\ last.result \in {GatingViolation, NotFound}) => db = last.pre

\* The call that has just ended, cut down to the items before the one it
\* ended at.
EarlierItems ==
  [last.call EXCEPT !.sectionItemIds = SubSeq(last.call.sectionItemIds, 1, last.at - 1),
                    !.pc = IF last.at = 1 THEN "done" ELSE "findPrevious"]

\* C3 as amended: a call that fails with GatingViolation at its k-th item
\* leaves the store as the completion of its first k-1 items left it: the
\* failing item has written nothing, the writes of the earlier items stay.
C3_GatingKeepsEarlierWrites ==
  (Completed /\ last.result = GatingViolation) =>
    /\ RunCall(last.pre, EarlierItems).p.pc = "done"
    /\ db = RunCall(last.pre, EarlierItems).db
    /\ last.updates = <<>>

C3_Witness ==
  /\ Completed /\ last.result = GatingViolation
  /\ last.at = 2
  /\ db # last.pre

Initialized == last.op = "initialize"

\* The store holds no progress row and no adjacency row.
NoRows(d) ==
  /\ \A level \in ProgressTables : d[level] = EmptyTable
  /\ d.moduleNext = EmptyTable /\ d.sectionNext = EmptyTable
  /\ d.sectionItemNext = EmptyTable

FirstIf(b) == IF b THEN IN_PROGRESS ELSE INCOMPLETE

\* The statuses of student s follow the first chain of cd by sequence: the
\* sequence-1 module, its sequence-1 section and that section's sequence-1
\* item are IN_PROGRESS, as is the course; every other entity is INCOMPLETE.
FirstChainInProgress(d, cd, s) ==
  LET c == cd.courseInstanceId IN
  /\ StatusOf(d, "course", Null, s, c) = IN_PROGRESS
  /\ \A i \in 1..Len(cd.modules) :
       LET m == cd.modules[i] IN
       /\ StatusOf(d, "module", m.moduleId, s, c) = FirstIf(m.sequence = 1)
       /\ \A j \in 1..Len(m.sections) :
            LET sec == m.sections[j] IN
            /\ StatusOf(d, "section", sec.sectionId, s, c)
                 = FirstIf(m.sequence = 1 /\ sec.sequence = 1)
            /\ \A k \in 1..Len(sec.sectionItems) :
                 StatusOf(d, "sectionItem", sec.sectionItems[k].sectionItemId, s, c)
                   = FirstIf(m.sequence = 1 /\ sec.sequence = 1
                             /\ sec.sectionItems[k].sequence = 1)

\* C4: after initializeStudentProgress on an empty store, whatever the
\* order of the input arrays, each student has the first chain (by
\* sequence) IN_PROGRESS, everything else INCOMPLETE, and TotalProgress 0.
C4_FirstChainAfterInit ==
  (Initialized /\ last.result = OK /\ NoRows(last.pre)) =>
    \A s \in Range(last.cd.studentIds) :
      /\ FirstChainInProgress(db, last.cd, s)
      /\ db.total[<<s, last.cd.courseInstanceId>>] = 0

\* C6: when the transaction fails at any of its operations the call fails
\* with InitializationFailed and every table of the store is as before.
C6_FailedInitRollsBack ==
  (Initialized /\ last.failAt # 0) =>
    (last.result = InitializationFailed /\ db = last.pre)

\* The transaction failed at the last operation queued for the second
\* student, on a store that already held rows.
C6_Witness ==
  /\ Initialized /\ last.result = InitializationFailed
  /\ Len(last.cd.studentIds) = 2
  /\ last.failAt = Len(ProgressRecords(last.cd, last.pre))
  /\ last.pre.sectionItem # EmptyTable
  /\ db = last.pre

\* C7: a run of initializeStudentProgress deletes no progress row, leaves
\* the status of every progress row that existed as it was, and sets
\* TotalProgress to 0 for every listed student.
C7_RerunKeepsProgress ==
  (Initialized /\ last.result = OK) =>
    /\ \A level \in ProgressTables : \A k \in DOMAIN last.pre[level] :
         k \in DOMAIN db[level] /\ db[level][k] = last.pre[level][k]
    /\ \A s \in Range(last.cd.studentIds) :
         db.total[<<s, last.cd.courseInstanceId>>] = 0

\* A re-run over a course the student has completed.
C7_Witness ==
  /\ Initialized /\ last.result = OK
  /\ \E s \in Range(last.cd.studentIds) :
       /\ StatusOf(last.pre, "course", Null, s, last.cd.courseInstanceId) = COMPLETE
       /\ StatusOf(db, "course", Null, s, last.cd.courseInstanceId) = COMPLETE
       /\ \E k \in DOMAIN db.sectionItem : db.sectionItem[k] = COMPLETE

\* The 2x2x2 curriculum and its items in curriculum order.
Course222 == CourseProgressData("c1", <<"s1">>, Modules222)
Order222 == extractAllIds(Course222).sectionItems

\* Position in the curriculum order of the first and of the last item of a
\* list of items.
FirstPos(items) ==
  CHOOSE i \in 1..Len(Order222) : Order222[i] = items[1].sectionItemId
LastPos(items) == FirstPos(items) + Len(items) - 1

\* The status of an entity whose items span positions lo..hi once the first
\* k items of the curriculum have been completed in order.
StatusAfter(k, lo, hi) ==
  IF hi <= k THEN COMPLETE ELSE IF lo <= k + 1 THEN IN_PROGRESS ELSE INCOMPLETE

AllItems(m) == Flatten([j \in 1..Len(m.sections) |-> m.sections[j].sectionItems])

\* Store d holds, for the student of the scenario, the progress of k items
\* completed in curriculum order: those items COMPLETE, the one after them
\* IN_PROGRESS, a section or module COMPLETE when its last item is,
\* IN_PROGRESS when its first item is at least IN_PROGRESS, the course
\* COMPLETE when every item is.
Progress222(d, k) ==
  /\ StatusOf(d, "course", Null, "s1", "c1") = StatusAfter(k, 1, Len(Order222))
  /\ \A i \in 1..Len(Modules222) :
       LET m == Modules222[i] IN
       /\ StatusOf(d, "module", m.moduleId, "s1", "c1")
            = StatusAfter(k, FirstPos(AllItems(m)), LastPos(AllItems(m)))
       /\ \A j \in 1..Len(m.sections) :
            LET sec == m.sections[j] IN
            /\ StatusOf(d, "section", sec.sectionId, "s1", "c1")
                 = StatusAfter(k, FirstPos(sec.sectionItems), LastPos(sec.sectionItems))
            /\ \A x \in 1..Len(sec.sectionItems) :
                 StatusOf(d, "sectionItem", sec.sectionItems[x].sectionItemId, "s1", "c1")
                   = StatusAfter(k, FirstPos(<<sec.sectionItems[x]>>),
                                 FirstPos(<<sec.sectionItems[x]>>))

\* The states the scenario lists.
Listed222(d, item) ==
  /\ item = "M1S1I1" => StatusOf(d, "sectionItem", "M1S1I2", "s1", "c1") = IN_PROGRESS
  /\ item = "M1S1I2" =>
       /\ StatusOf(d, "section", "M1S1", "s1", "c1") = COMPLETE
       /\ StatusOf(d, "section", "M1S2", "s1", "c1") = IN_PROGRESS
       /\ StatusOf(d, "sectionItem", "M1S2I1", "s1", "c1") = IN_PROGRESS
  /\ item = "M1S2I2" =>
       /\ StatusOf(d, "module", "M1", "s1", "c1") = COMPLETE
       /\ StatusOf(d, "module", "M2", "s1", "c1") = IN_PROGRESS
       /\ StatusOf(d, "section", "M2S1", "s1", "c1") = IN_PROGRESS
       /\ StatusOf(d, "sectionItem", "M2S1I1", "s1", "c1") = IN_PROGRESS
  /\ item = "M2S2I2" =>
       /\ StatusOf(d, "course", Null, "s1", "c1") = COMPLETE
       /\ \A level \in {"module", "section", "sectionItem"} :
            \A key \in DOMAIN d[level] : d[level][key] = COMPLETE

\* C5: initialization of an empty store gives the progress of 0 items; from
\* the progress of k items completed in curriculum order, the call for item
\* k+1 with cascade = true succeeds and gives the progress of k+1 items, which
\* for the items the scenario names are the listed states and after the last
\* item is everything COMPLETE.
C5_InOrderCompletion ==
  /\ (Initialized /\ last.result = OK /\ NoRows(last.pre)) => Progress222(db, 0)
  /\ \A k \in 0..(Len(Order222) - 1) :
       (/\ SingleItem /\ last.call.cascade
        /\ last.call.sectionItemIds[1] = Order222[k + 1]
        /\ Progress222(last.pre, k))
       => /\ last.result = OK
          /\ Progress222(db, k + 1)
          /\ Listed222(db, Order222[k + 1])

\* The call for the last item of the curriculum, after the others in order.
C5_Witness ==
  /\ SingleItem /\ last.call.cascade
  /\ last.call.sectionItemIds[1] = Order222[Len(Order222)]
  /\ Progress222(last.pre, Len(Order222) - 1)
  /\ last.result = OK
  /\ Progress222(db, Len(Order222))

\* C8: a call that was interrupted after one of its writes and is invoked
\* again with the same arguments, with no call in between, succeeds and ends
\* in the store of its uninterrupted execution (taken for the calls whose
\* uninterrupted execution succeeds).
C8_RetryConverges ==
  (last.op = "retry" /\ RunCall(last.pre, last.call).p.pc = "done") =>
    /\ last.result = OK
    /\ db = RunCall(last.pre, last.call).db

\* The store two calls leave when the first runs to its end before the
\* second starts.
OneAfterTheOther(d, p, q) == RunCall(RunCall(d, p).db, q).db

\* The call of slot i as it was started.
Started(i) ==
  NewCall(calls[i].courseInstanceId, calls[i].studentId, calls[i].sectionItemIds,
          calls[i].cascade, calls[i].scan)

\* C9: when two calls issued together for the same student and course have
\* both ended, the store is the one that running them one after the other,
\* in one of the two orders, produces.
C9_Serialized ==
  (last.op = "together" /\ BothEnded) =>
    db \in {OneAfterTheOther(last.pre, Started(1), Started(2)),
            OneAfterTheOther(last.pre, Started(2), Started(1))}

\* The item of the call is the last of its section, and the section has a
\* next section in its module, by the adjacency rows of the store the call
\* started from.
LastOfSectionWithNext ==
  /\ SingleItem /\ last.call.cascade
  /\ hasAdjacency(last.pre, "sectionItemNext", last.call.sectionItemIds[1])
  /\ LET det == getAdjacency(last.pre, "sectionItemNext", last.call.sectionItemIds[1])
     IN /\ det.nextSectionItemId = Null
        /\ hasAdjacency(last.pre, "sectionNext", det.sectionId)
        /\ getAdjacency(last.pre, "sectionNext", det.sectionId).nextSectionId # Null

\* C10: the call for the last item of a section that has a next section,
\* with cascade = true and the gating check passed, succeeds; the item and
\* the section are COMPLETE, the next section and its first item are
\* IN_PROGRESS, the module and course rows are as before, and the call
\* reports sections [sectionId, nextSectionId] and the first item of the
\* next section.
C10_SectionEscalation ==
  (LastOfSectionWithNext /\ ~PreviousNotComplete) =>
    LET item == last.call.sectionItemIds[1]
        s == last.call.studentId
        c == last.call.courseInstanceId
        sec == getAdjacency(last.pre, "sectionItemNext", item).sectionId
        nextSec == getAdjacency(last.pre, "sectionNext", sec).nextSectionId
        firstItem == getAdjacency(last.pre, "sectionNext", nextSec).sectionItemId
    IN /\ last.result = OK
       /\ StatusOf(db, "sectionItem", item, s, c) = COMPLETE
       /\ StatusOf(db, "section", sec, s, c) = COMPLETE
       /\ StatusOf(db, "section", nextSec, s, c) = IN_PROGRESS
       /\ StatusOf(db, "sectionItem", firstItem, s, c) = IN_PROGRESS
       /\ db.module = last.pre.module
       /\ db.course = last.pre.course
       /\ Len(last.updates) = 1
       /\ last.updates[1].sections = <<sec, nextSec>>
       /\ firstItem \in Range(last.updates[1].sectionItems)
       /\ last.updates[1].modules = <<>>
       /\ last.updates[1].course = Null

C10_Witness ==
  /\ LastOfSectionWithNext /\ ~PreviousNotComplete
  /\ last.call.sectionItemIds[1] = "I2"
  /\ last.result = OK
  /\ StatusOf(db, "section", "S1", "s1", "c1") = COMPLETE
  /\ StatusOf(db, "section", "S2", "s1", "c1") = IN_PROGRESS
  /\ StatusOf(db, "sectionItem", "I3", "s1", "c1") = IN_PROGRESS
  /\ StatusOf(last.pre, "section", "S2", "s1", "c1") = INCOMPLETE

\* The first item of the call has a previous item, found by findFirst, that
\* has no stored progress row for the student and course of the call.
PreviousRowMissing ==
  /\ PreviousOfFirst # Null
  /\ ProgressKey("sectionItem", PreviousOfFirst, last.call.studentId,
                 last.call.courseInstanceId) \notin DOMAIN last.pre.sectionItem

\* C11: a call with a single item that needs a record the store does not
\* hold (the progress row of the item's previous item, or with cascade = true
\* the item's own adjacency record) fails with NotFound.
C11_MissingRecordIsNotFound ==
  (/\ SingleItem
   /\ \/ PreviousRowMissing
      \/ /\ last.call.cascade
         /\ ~hasAdjacency(last.pre, "sectionItemNext", last.call.sectionItemIds[1]))
  => last.result = NotFound

\* The ids of a list of siblings, and whether x has the highest sequence.
IdsOf(xs, field) == {xs[i][field] : i \in 1..Len(xs)}
HighestOf(xs, x) == \A i \in 1..Len(xs) : xs[i].sequence <= x.sequence

\* C12: after initializeStudentProgress over course data cd, the stored next
\* section of every section of cd is null or a section of the same module,
\* and null for the last section of the module; the stored next item of
\* every item is null or an item of the same section, and null for the last
\* item of the section.
C12_NextStaysInParent ==
  (Initialized /\ last.result = OK) =>
    \A i \in 1..Len(last.cd.modules) :
      LET m == last.cd.modules[i] IN
      \A j \in 1..Len(m.sections) :
        LET sec == m.sections[j] IN
        /\ db.sectionNext[sec.sectionId].nextSectionId
             \in {Null} \cup IdsOf(m.sections, "sectionId")
        /\ HighestOf(m.sections, sec)
             => db.sectionNext[sec.sectionId].nextSectionId = Null
        /\ \A k \in 1..Len(sec.sectionItems) :
             LET item == sec.sectionItems[k] IN
             /\ db.sectionItemNext[item.sectionItemId].nextSectionItemId
                  \in {Null} \cup IdsOf(sec.sectionItems, "sectionItemId")
             /\ HighestOf(sec.sectionItems, item)
                  => db.sectionItemNext[item.sectionItemId].nextSectionItemId = Null

\* Course data listed in descending sequence has been stored: the last
\* section of M1 has no next section although module M2 follows, the last
\* item of S1 has no next item although section S2 follows.
C12_Witness ==
  /\ Initialized /\ last.result = OK
  /\ last.cd.modules = ModulesAReversed
  /\ db.moduleNext["M2"].nextModuleId = "M1"
  /\ db.sectionNext["S1"].nextSectionId = "S2"
  /\ db.sectionNext["S2"].nextSectionId = Null
  /\ db.sectionItemNext["I1"].nextSectionItemId = "I2"
  /\ db.sectionItemNext["I2"].nextSectionItemId = Null

\* Following the next pointers of an adjacency table from record x reaches
\* null in at most n steps.
RECURSIVE EndsWithin(_, _, _, _)
EndsWithin(t, nextField, x, n) ==
  \/ x = Null
  \/ x \notin DOMAIN t
  \/ n > 0 /\ EndsWithin(t, nextField, t[x][nextField], n - 1)

\* The records of an adjacency table form singly linked lists: every chain of
\* next pointers ends in null without revisiting a record, and no entity is
\* the next of two records.
LinkedLists(t, nextField) ==
  /\ \A x \in DOMAIN t : EndsWithin(t, nextField, x, Cardinality(DOMAIN t))
  /\ \A x, y \in DOMAIN t :
       (x # y /\ t[x][nextField] # Null) => t[x][nextField] # t[y][nextField]

\* C13: after any sequence of initializeStudentProgress calls, over a
\* curriculum that changes or not, the stored adjacency of each level is a
\* set of singly linked lists.
C13_AdjacencyIsLinkedLists ==
  /\ LinkedLists(db.moduleNext, "nextModuleId")
  /\ LinkedLists(db.sectionNext, "nextSectionId")
  /\ LinkedLists(db.sectionItemNext, "nextSectionItemId")

Ascending(xs) == \A i \in 1..(Len(xs) - 1) : xs[i].sequence < xs[i + 1].sequence

\* The elements of xs arranged by ascending sequence.
AscendingOrder(xs) == CHOOSE q \in Perms(xs) : Ascending(q)

\* The child of sequence 1 among xs: its position in xs, 0 when there is none.
SequenceOne(xs) ==
  IF \E i \in 1..Len(xs) : xs[i].sequence = 1
  THEN CHOOSE i \in 1..Len(xs) : xs[i].sequence = 1
  ELSE 0

\* The ids of the course data by ascending sequence within each parent.
AscendingIds(cd) ==
  LET ms == AscendingOrder(cd.modules) IN
  [modules |-> [i \in 1..Len(ms) |-> ms[i].moduleId],
   sections |->
     Flatten([i \in 1..Len(ms) |->
        [j \in 1..Len(ms[i].sections) |->
           AscendingOrder(ms[i].sections)[j].sectionId]]),
   sectionItems |->
     Flatten([i \in 1..Len(ms) |->
        Flatten([j \in 1..Len(ms[i].sections) |->
           [k \in 1..Len(AscendingOrder(ms[i].sections)[j].sectionItems) |->
              AscendingOrder(AscendingOrder(ms[i].sections)[j].sectionItems)[k]
                .sectionItemId]])])]

\* C14: for course data listed in any order, extractAllIds returns the id
\* lists in ascending sequence within each parent, and as first module,
\* section and item the sequence-1 module, its sequence-1 section and that
\* section's sequence-1 item; all three are null when no module has sequence 1.
C14_ExtractAllIds ==
  last.op = "extract" =>
    LET cd == last.cd
        fm == SequenceOne(cd.modules)
    IN /\ last.ids.modules = AscendingIds(cd).modules
       /\ last.ids.sections = AscendingIds(cd).sections
       /\ last.ids.sectionItems = AscendingIds(cd).sectionItems
       /\ IF fm = 0
          THEN /\ last.ids.firstModule = Null
               /\ last.ids.firstSection = Null
               /\ last.ids.firstSectionItem = Null
          ELSE LET m == cd.modules[fm]
                   sec == m.sections[SequenceOne(m.sections)]
                   item == sec.sectionItems[SequenceOne(sec.sectionItems)]
               IN /\ last.ids.firstModule = m.moduleId
                  /\ last.ids.firstSection = sec.sectionId
                  /\ last.ids.firstSectionItem = item.sectionItemId

\* Course data listed with the second module first and the items of the
\* first section in descending sequence.
C14_Witness ==
  /\ last.op = "extract"
  /\ last.cd.modules[1].moduleId = "M2"
  /\ last.cd.modules[2].sections[2].sectionItems[2].sectionItemId = "M1S1I1"
  /\ last.ids.firstModule = "M1"
  /\ last.ids.firstSection = "M1S1"
  /\ last.ids.firstSectionItem = "M1S1I1"
  /\ last.ids.sectionItems[1] = "M1S1I1"
  /\ last.ids.sectionItems[8] = "M2S2I2"

\* The number of rows of the progress tables that store d holds.
RECURSIVE RowCount(_, _)
RowCount(d, levels) ==
  IF levels = {} THEN 0
  ELSE LET level == CHOOSE l \in levels : TRUE
       IN Cardinality(DOMAIN d[level]) + RowCount(d, levels \ {level})

\* C15: initializeStudentProgress returns the number of student ids supplied
\* and the number of progress rows the call created, on a first run and on
\* a run that finds rows already there.
C15_CountsCreatedRecords ==
  (Initialized /\ last.result = OK) =>
    /\ last.studentCount = Len(last.cd.studentIds)
    /\ last.totalRecords
         = RowCount(db, ProgressTables) - RowCount(last.pre, ProgressTables)

\* The id of the sibling of x with the next-higher sequence, null when x has
\* the highest sequence of the list.
SiblingAfter(xs, x, field) ==
  LET higher == {i \in 1..Len(xs) : xs[i].sequence > x.sequence}
  IN IF higher = {} THEN Null
     ELSE xs[CHOOSE i \in higher :
               \A j \in higher : xs[i].sequence <= xs[j].sequence][field]

\* C16: after initializeStudentProgress over course data cd, whatever the
\* order of its arrays, the stored next of every module, section and item is
\* the sibling with the next-higher sequence in the same parent, or null for
\* the sibling with the highest sequence.
C16_NextIsNextHigherSibling ==
  (Initialized /\ last.result = OK) =>
    \A i \in 1..Len(last.cd.modules) :
      LET m == last.cd.modules[i] IN
      /\ db.moduleNext[m.moduleId].nextModuleId
           = SiblingAfter(last.cd.modules, m, "moduleId")
      /\ \A j \in 1..Len(m.sections) :
           LET sec == m.sections[j] IN
           /\ db.sectionNext[sec.sectionId].nextSectionId
                = SiblingAfter(m.sections, sec, "sectionId")
           /\ \A k \in 1..Len(sec.sectionItems) :
                LET item == sec.sectionItems[k] IN
                db.sectionItemNext[item.sectionItemId].nextSectionItemId
                  = SiblingAfter(sec.sectionItems, item, "sectionItemId")

\* The item of the call is the last of its section and the section the last
\* of its module, by the adjacency rows of the store the call started from.
LastOfModule ==
  /\ SingleItem /\ last.call.cascade
  /\ hasAdjacency(last.pre, "sectionItemNext", last.call.sectionItemIds[1])
  /\ LET det == getAdjacency(last.pre, "sectionItemNext", last.call.sectionItemIds[1])
     IN /\ det.nextSectionItemId = Null
        /\ hasAdjacency(last.pre, "sectionNext", det.sectionId)
        /\ getAdjacency(last.pre, "sectionNext", det.sectionId).nextSectionId = Null
        /\ hasAdjacency(last.pre, "moduleNext",
                        getAdjacency(last.pre, "sectionNext", det.sectionId).moduleId)

\* The module of the item of the call, and the module stored as its next.
ModuleOfCall ==
  getAdjacency(last.pre, "sectionNext",
    getAdjacency(last.pre, "sectionItemNext",
                 last.call.sectionItemIds[1]).sectionId).moduleId
NextModuleOfCall == getAdjacency(last.pre, "moduleNext", ModuleOfCall).nextModuleId

\* C17: the call for the last item of the last section of a module that has
\* a next module, with cascade = true and the gating check passed, leaves
\* the module COMPLETE and the next module, its first section and that
\* section's first item IN_PROGRESS, and reports modules
\* [moduleId, nextModuleId], sections holding the completed section and the
\* first section of the next module, and the first item of that section
\* among sectionItems.
C17_ModuleEscalation ==
  (LastOfModule /\ NextModuleOfCall # Null /\ ~PreviousNotComplete) =>
    LET item == last.call.sectionItemIds[1]
        s == last.call.studentId
        c == last.call.courseInstanceId
        sec == getAdjacency(last.pre, "sectionItemNext", item).sectionId
        firstSec == getAdjacency(last.pre, "moduleNext", NextModuleOfCall).sectionId
        firstItem == getAdjacency(last.pre, "sectionNext", firstSec).sectionItemId
    IN /\ last.result = OK
       /\ StatusOf(db, "module", ModuleOfCall, s, c) = COMPLETE
       /\ StatusOf(db, "module", NextModuleOfCall, s, c) = IN_PROGRESS
       /\ StatusOf(db, "section", firstSec, s, c) = IN_PROGRESS
       /\ StatusOf(db, "sectionItem", firstItem, s, c) = IN_PROGRESS
       /\ Len(last.updates) = 1
       /\ last.updates[1].modules = <<ModuleOfCall, NextModuleOfCall>>
       /\ {sec, firstSec} \subseteq Range(last.updates[1].sections)
       /\ firstItem \in Range(last.updates[1].sectionItems)

\* The part of C17 about the store: the statuses after the call.
ModuleEscalationStatuses ==
  (LastOfModule /\ NextModuleOfCall # Null /\ ~PreviousNotComplete) =>
    LET s == last.call.studentId
        c == last.call.courseInstanceId
        firstSec == getAdjacency(last.pre, "moduleNext", NextModuleOfCall).sectionId
        firstItem == getAdjacency(last.pre, "sectionNext", firstSec).sectionItemId
    IN /\ last.result = OK
       /\ StatusOf(db, "module", ModuleOfCall, s, c) = COMPLETE
       /\ StatusOf(db, "module", NextModuleOfCall, s, c) = IN_PROGRESS
       /\ StatusOf(db, "section", firstSec, s, c) = IN_PROGRESS
       /\ StatusOf(db, "sectionItem", firstItem, s, c) = IN_PROGRESS
       /\ last.updates[1].modules = <<ModuleOfCall, NextModuleOfCall>>
       /\ last.updates[1].sections = <<getAdjacency(last.pre, "sectionItemNext",
                                         last.call.sectionItemIds[1]).sectionId>>

\* The rows of a progress table whose status is IN_PROGRESS.
InProgressRows(d, level) ==
  {k \in DOMAIN d[level] : d[level][k] = IN_PROGRESS}

\* C18: the call for the last item of the last section of the last module,
\* with cascade = true and the gating check passed, leaves the item, the
\* section, the module and the course COMPLETE, sets no row IN_PROGRESS, and
\* reports the course with modules [moduleId].
C18_CourseEscalation ==
  (LastOfModule /\ NextModuleOfCall = Null /\ ~PreviousNotComplete) =>
    LET item == last.call.sectionItemIds[1]
        s == last.call.studentId
        c == last.call.courseInstanceId
        sec == getAdjacency(last.pre, "sectionItemNext", item).sectionId
    IN /\ last.result = OK
       /\ StatusOf(db, "sectionItem", item, s, c) = COMPLETE
       /\ StatusOf(db, "section", sec, s, c) = COMPLETE
       /\ StatusOf(db, "module", ModuleOfCall, s, c) = COMPLETE
       /\ StatusOf(db, "course", c, s, c) = COMPLETE
       /\ \A level \in ProgressTables :
            InProgressRows(db, level) \subseteq InProgressRows(last.pre, level)
       /\ Len(last.updates) = 1
       /\ last.updates[1].course = c
       /\ last.updates[1].modules = <<ModuleOfCall>>
       /\ last.updates[1].sections = <<sec>>
       /\ last.updates[1].sectionItems = <<item>>

\* The last item of the course has been completed with cascade = true: the
\* course went from IN_PROGRESS to COMPLETE.
C18_Witness ==
  /\ LastOfModule /\ NextModuleOfCall = Null /\ ~PreviousNotComplete
  /\ last.call.sectionItemIds[1] = "I4"
  /\ last.result = OK
  /\ StatusOf(last.pre, "course", "c1", "s1", "c1") = IN_PROGRESS
  /\ StatusOf(db, "course", "c1", "s1", "c1") = COMPLETE
  /\ StatusOf(db, "module", "M2", "s1", "c1") = COMPLETE

\* The item rows of store d with the rows of the listed items of the call
\* set to COMPLETE.
ListedItemsComplete(d) ==
  LET listed == {ProgressKey("sectionItem", id, last.call.studentId,
                             last.call.courseInstanceId) :
                   id \in Range(last.call.sectionItemIds)}
  IN [k \in DOMAIN d.sectionItem |->
        IF k \in listed THEN COMPLETE ELSE d.sectionItem[k]]

\* C19: a successful call with cascade = false sets the row of each listed
\* item to COMPLETE and changes nothing else in the store, also when an item
\* is the last of its section, and reports sectionItems [itemId] alone for
\* each item.
C19_NoCascadeWritesItemOnly ==
  (Completed /\ ~last.call.cascade /\ last.result = OK) =>
    /\ db = [last.pre EXCEPT !.sectionItem = ListedItemsComplete(last.pre)]
    /\ Len(last.updates) = Len(last.call.sectionItemIds)
    /\ \A i \in 1..Len(last.updates) :
         last.updates[i]
           = UpdatedEntities(Null, <<>>, <<>>, <<last.call.sectionItemIds[i]>>)

\* The last item of section S1 has been completed with cascade = false: S1
\* stays IN_PROGRESS and section S2 and its item stay INCOMPLETE.
C19_Witness ==
  /\ Completed /\ ~last.call.cascade /\ last.result = OK
  /\ last.call.sectionItemIds = <<"I2">>
  /\ StatusOf(last.pre, "sectionItem", "I2", "s1", "c1") # COMPLETE
  /\ StatusOf(db, "sectionItem", "I2", "s1", "c1") = COMPLETE
  /\ StatusOf(db, "section", "S1", "s1", "c1") = IN_PROGRESS
  /\ StatusOf(db, "section", "S2", "s1", "c1") = INCOMPLETE
  /\ StatusOf(db, "sectionItem", "I3", "s1", "c1") = INCOMPLETE

\* The item of the call has a next item, by the adjacency row of the store
\* the call started from.
ItemWithNext ==
  /\ SingleItem /\ last.call.cascade
  /\ hasAdjacency(last.pre, "sectionItemNext", last.call.sectionItemIds[1])
  /\ getAdjacency(last.pre, "sectionItemNext",
                  last.call.sectionItemIds[1]).nextSectionItemId # Null

\* C20: a successful call with cascade = true for an item that has a next
\* item leaves the item COMPLETE and the next item IN_PROGRESS, writes no
\* section, module or course row, and reports sectionItems [itemId, nextId].
C20_NextItemStarts ==
  (ItemWithNext /\ last.result = OK) =>
    LET item == last.call.sectionItemIds[1]
        s == last.call.studentId
        c == last.call.courseInstanceId
        nextItem == getAdjacency(last.pre, "sectionItemNext", item).nextSectionItemId
    IN /\ StatusOf(db, "sectionItem", item, s, c) = COMPLETE
       /\ StatusOf(db, "sectionItem", nextItem, s, c) = IN_PROGRESS
       /\ db.section = last.pre.section
       /\ db.module = last.pre.module
       /\ db.course = last.pre.course
       /\ last.updates = <<UpdatedEntities(Null, <<>>, <<>>, <<item, nextItem>>)>>

\* Item I1 has been completed with cascade = true: I2 went from INCOMPLETE
\* to IN_PROGRESS.
C20_Witness ==
  /\ ItemWithNext /\ last.result = OK
  /\ last.call.sectionItemIds = <<"I1">>
  /\ StatusOf(last.pre, "sectionItem", "I2", "s1", "c1") = INCOMPLETE
  /\ StatusOf(db, "sectionItem", "I1", "s1", "c1") = COMPLETE
  /\ StatusOf(db, "sectionItem", "I2", "s1", "c1") = IN_PROGRESS

\* The store after a call for the first item of the last call alone and then
\* a call for its second item alone, from the store the last call started
\* from.
OneCallPerItem ==
  LET c == last.call
      first == RunCall(last.pre,
                 NewCall(c.courseInstanceId, c.studentId, <<c.sectionItemIds[1]>>,
                         c.cascade, c.scan))
      second == RunCall(first.db,
                  NewCall(c.courseInstanceId, c.studentId, <<c.sectionItemIds[2]>>,
                          c.cascade, c.scan))
  IN [db |-> second.db, results |-> <<Outcome(first.p), Outcome(second.p)>>,
      updates |-> Returned(first.p) \o Returned(second.p)]

\* The last call is for two items, and the stored next of item `from` of the
\* array is item `to` of the array.
PairOfCall(from, to) ==
  /\ Completed /\ Len(last.call.sectionItemIds) = 2
  /\ hasAdjacency(last.pre, "sectionItemNext", last.call.sectionItemIds[from])
  /\ getAdjacency(last.pre, "sectionItemNext",
                  last.call.sectionItemIds[from]).nextSectionItemId
       = last.call.sectionItemIds[to]

\* The stored status of item n of the array, before the call, is not COMPLETE.
NotYetComplete(n) ==
  StatusOf(last.pre, "sectionItem", last.call.sectionItemIds[n],
           last.call.studentId, last.call.courseInstanceId)
    \in {INCOMPLETE, IN_PROGRESS}

\* C21: the items of a call are processed in the order of the array, each
\* seeing the writes made for the ones before it.  A call for [I1, I2], I2
\* the successor of I1 and I1 not yet complete with its gate open, succeeds
\* and leaves the store, and reports the updates, of the call [I1] followed
\* by the call [I2]; the call for [I2, I1] from a store where I1 is not yet
\* complete fails with GatingViolation at I2, its first item, having
\* written nothing.
C21_ArrayOrder ==
  /\ (PairOfCall(1, 2) /\ NotYetComplete(1) /\ ~PreviousNotComplete) =>
       /\ last.result = OK
       /\ OneCallPerItem.results = <<OK, OK>>
       /\ db = OneCallPerItem.db
       /\ last.updates = OneCallPerItem.updates
  /\ (PairOfCall(2, 1) /\ NotYetComplete(2)) =>
       /\ last.result = GatingViolation
       /\ last.at = 1
       /\ db = last.pre

\* The call for [I1, I2] with cascade = true has ended: I2, INCOMPLETE before
\* the call, is COMPLETE, section S1 is COMPLETE and section S2 has been
\* opened.
C21_Witness ==
  /\ PairOfCall(1, 2) /\ NotYetComplete(1) /\ ~PreviousNotComplete
  /\ last.call.sectionItemIds = <<"I1", "I2">>
  /\ last.call.cascade
  /\ StatusOf(last.pre, "sectionItem", "I2", "s1", "c1") = INCOMPLETE
  /\ last.result = OK
  /\ StatusOf(db, "sectionItem", "I1", "s1", "c1") = COMPLETE
  /\ StatusOf(db, "sectionItem", "I2", "s1", "c1") = COMPLETE
  /\ StatusOf(db, "section", "S2", "s1", "c1") = IN_PROGRESS

\* The call for [I2, I1] has failed at I2.
ReversedPairFails ==
  /\ PairOfCall(2, 1) /\ NotYetComplete(2)
  /\ last.call.sectionItemIds = <<"I2", "I1">>
  /\ last.result = GatingViolation

\* The id of the child with the lowest sequence, null when there is none.
FirstChild(xs, field) ==
  IF xs = <<>> THEN Null
  ELSE xs[CHOOSE i \in 1..Len(xs) :
            \A j \in 1..Len(xs) : xs[i].sequence <= xs[j].sequence][field]

\* C22: after initializeStudentProgress over course data cd, on a store that
\* holds the adjacency rows of an earlier shape of the curriculum or not,
\* the adjacency row of every module, section and item of cd has the next,
\* the first child and the parent that cd gives it.
C22_AdjacencyFollowsCurriculum ==
  (Initialized /\ last.result = OK) =>
    \A i \in 1..Len(last.cd.modules) :
      LET m == last.cd.modules[i] IN
      /\ db.moduleNext[m.moduleId].nextModuleId
           = SiblingAfter(last.cd.modules, m, "moduleId")
      /\ db.moduleNext[m.moduleId].sectionId = FirstChild(m.sections, "sectionId")
      /\ db.moduleNext[m.moduleId].courseInstanceId = last.cd.courseInstanceId
      /\ \A j \in 1..Len(m.sections) :
           LET sec == m.sections[j] IN
           /\ db.sectionNext[sec.sectionId].nextSectionId
                = SiblingAfter(m.sections, sec, "sectionId")
           /\ db.sectionNext[sec.sectionId].sectionItemId
                = FirstChild(sec.sectionItems, "sectionItemId")
           /\ db.sectionNext[sec.sectionId].moduleId = m.moduleId
           /\ \A k \in 1..Len(sec.sectionItems) :
                LET item == sec.sectionItems[k] IN
                /\ db.sectionItemNext[item.sectionItemId].nextSectionItemId
                     = SiblingAfter(sec.sectionItems, item, "sectionItemId")
                /\ db.sectionItemNext[item.sectionItemId].sectionId = sec.sectionId

\* The same on a store that held no adjacency row before the call.
AdjacencyOfFirstRun ==
  (last.pre.moduleNext = EmptyTable) => C22_AdjacencyFollowsCurriculum

\* Module i of the course data of the last call is new for student s: the
\* store the call started from holds no row of s for it, its sections or
\* its items.
NewModuleFor(i, s) ==
  LET m == last.cd.modules[i]
      c == last.cd.courseInstanceId
  IN /\ StatusOf(last.pre, "module", m.moduleId, s, c) = Null
     /\ \A j \in 1..Len(m.sections) :
          /\ StatusOf(last.pre, "section", m.sections[j].sectionId, s, c) = Null
          /\ \A k \in 1..Len(m.sections[j].sectionItems) :
               StatusOf(last.pre, "sectionItem",
                        m.sections[j].sectionItems[k].sectionItemId, s, c) = Null

\* Module i is created open for s: IN_PROGRESS with its first section and
\* that section's first item, every other descendant INCOMPLETE; or, when
\* open is false, INCOMPLETE with all its descendants.
CreatedAs(i, s, open) ==
  LET m == last.cd.modules[i]
      c == last.cd.courseInstanceId
  IN /\ StatusOf(db, "module", m.moduleId, s, c) = FirstIf(open)
     /\ \A j \in 1..Len(m.sections) :
          LET sec == m.sections[j]
              firstSec == sec.sectionId = FirstChild(m.sections, "sectionId")
          IN /\ StatusOf(db, "section", sec.sectionId, s, c) = FirstIf(open /\ firstSec)
             /\ \A k \in 1..Len(sec.sectionItems) :
                  StatusOf(db, "sectionItem", sec.sectionItems[k].sectionItemId, s, c)
                    = FirstIf(open /\ firstSec
                              /\ sec.sectionItems[k].sectionItemId
                                   = FirstChild(sec.sectionItems, "sectionItemId"))

LevelOf(p) ==
  CASE p.pc \in ItemPcs -> 1
    [] p.pc \in SectionPcs -> 2
    [] p.pc \in ModulePcs -> 3
    [] p.pc = "markCourse" -> 4
    [] OTHER -> 5

\* A round trip of the started call stays at its level or moves to a higher
\* one, or ends the processing of the item: the call goes on to the next
\* item, returns or throws.
LevelsAscend ==
  (Running(calls[1]) /\ calls'[1] # calls[1]) =>
    \/ calls'[1].i = calls[1].i /\ LevelOf(calls'[1]) >= LevelOf(calls[1])
    \/ calls'[1].i = calls[1].i + 1 /\ calls'[1].pc \in {"findPrevious", "done"}

\* C24: every call of updateSectionItemProgress ends: each round trip stays
\* at the level (item, section, module, course) it is at or moves to a
\* higher one until the item is done, the call makes at most six writes
\* per item (the item, its section, its module, and the next module with
\* its first section and first item), and a started call returns its
\* updates or throws.
C24_CallTerminates ==
  /\ [][LevelsAscend]_vars
  /\ [](calls[1].writes <= 6 * Len(calls[1].sectionItemIds))
  /\ (Running(calls[1]) ~> (calls[1].pc \in {"done", "failed"}))
  /\ ((last.op = "started") ~> (last.op = "complete"
                                 /\ last.result \in {OK, GatingViolation, NotFound}))

\* A started call for two items has climbed to the course level for its
\* second item.
C24_Witness ==
  /\ last.op = "started"
  /\ Len(calls[1].sectionItemIds) = 2
  /\ calls[1].i = 2
  /\ calls[1].pc = "markCourse"
  /\ calls[1].writes = 5

\* The students and courses that have item rows in store d.
ItemRowOwners(d) == {<<k[1], k[3]>> : k \in DOMAIN d.sectionItem}

\* C25: in every state reached from an initialization by calls of
\* updateSectionItemProgress made one after the other, an item that is
\* COMPLETE for a student has no predecessor in its section or a predecessor
\* that is COMPLETE for the student.
C25_CompleteAfterPredecessor ==
  \A o \in ItemRowOwners(db) :
    \A x \in DOMAIN db.sectionItemNext :
      LET y == db.sectionItemNext[x].nextSectionItemId
      IN (y # Null /\ StatusOf(db, "sectionItem", y, o[1], o[2]) = COMPLETE)
           => StatusOf(db, "sectionItem", x, o[1], o[2]) = COMPLETE

\* C26: in every state reached from an initialization by calls of
\* updateSectionItemProgress with cascade = true, for every student a
\* section is COMPLETE only if all its items are, a module only if all its
\* sections are, and the course only if all its modules are.
C26_CompleteContainers ==
  \A o \in ItemRowOwners(db) :
    LET s == o[1]
        c == o[2]
    IN /\ \A x \in DOMAIN db.sectionItemNext :
            StatusOf(db, "section", db.sectionItemNext[x].sectionId, s, c) = COMPLETE
              => StatusOf(db, "sectionItem", x, s, c) = COMPLETE
       /\ \A x \in DOMAIN db.sectionNext :
            StatusOf(db, "module", db.sectionNext[x].moduleId, s, c) = COMPLETE
              => StatusOf(db, "section", x, s, c) = COMPLETE
       /\ \A x \in DOMAIN db.moduleNext :
            StatusOf(db, "course", c, s, c) = COMPLETE
              => StatusOf(db, "module", x, s, c) = COMPLETE

\* C27: a call of updateSectionItemProgress for one item whose stored status
\* is INCOMPLETE does not leave the item COMPLETE: an item goes to COMPLETE
\* from IN_PROGRESS only.
C27_CompleteFromInProgressOnly ==
  (SingleItem
     /\ StatusOf(last.pre, "sectionItem", last.call.sectionItemIds[1],
                 last.call.studentId, last.call.courseInstanceId) = INCOMPLETE)
  => StatusOf(db, "sectionItem", last.call.sectionItemIds[1],
              last.call.studentId, last.call.courseInstanceId) # COMPLETE

\* The entities of a level that are IN_PROGRESS for student s in course c.
InProgressOf(d, level, s, c) ==
  {k[2] : k \in {r \in DOMAIN d[level] :
                   r[1] = s /\ r[3] = c /\ d[level][r] = IN_PROGRESS}}

\* C28: in every state reached from an initialization by calls of
\* updateSectionItemProgress with cascade = true, a student has at most one
\* IN_PROGRESS item, at most one IN_PROGRESS section and at most one
\* IN_PROGRESS module in a course.
C28_OneInProgressPerLevel ==
  \A o \in ItemRowOwners(db) :
    \A level \in {"module", "section", "sectionItem"} :
      Cardinality(InProgressOf(db, level, o[1], o[2])) <= 1

\* C29: in every state reached from an initialization by calls of
\* updateSectionItemProgress with cascade = true, an IN_PROGRESS item is in
\* an IN_PROGRESS section and an IN_PROGRESS section is in an IN_PROGRESS
\* module.
C29_OpenInsideOpen ==
  \A o \in ItemRowOwners(db) :
    /\ \A x \in InProgressOf(db, "sectionItem", o[1], o[2]) :
         StatusOf(db, "section", db.sectionItemNext[x].sectionId, o[1], o[2])
           = IN_PROGRESS
    /\ \A x \in InProgressOf(db, "section", o[1], o[2]) :
         StatusOf(db, "module", db.sectionNext[x].moduleId, o[1], o[2])
           = IN_PROGRESS

\* The same two statements for the store right after initialization.
OpenChainAfterInit ==
  (Initialized /\ last.result = OK /\ NoRows(last.pre)) =>
    (C28_OneInProgressPerLevel /\ C29_OpenInsideOpen)

\* The student and the course instance a progress row belongs to.
OwnerOf(level, k) == IF level = "course" THEN k ELSE <<k[1], k[3]>>

\* C30: a call of updateSectionItemProgress for student s and course
\* instance c creates and deletes no progress row, leaves every progress row
\* of another student or of another course instance as it was, and leaves
\* the adjacency rows of the three levels and every TotalProgress value as
\* they were.
C30_OtherRowsUntouched ==
  Completed =>
    /\ \A level \in ProgressTables :
         /\ DOMAIN db[level] = DOMAIN last.pre[level]
         /\ \A k \in DOMAIN last.pre[level] :
              OwnerOf(level, k) # <<last.call.studentId, last.call.courseInstanceId>>
                => db[level][k] = last.pre[level][k]
    /\ db.moduleNext = last.pre.moduleNext
    /\ db.sectionNext = last.pre.sectionNext
    /\ db.sectionItemNext = last.pre.sectionItemNext
    /\ db.total = last.pre.total

\* Student s1 has completed the only item of section S1 in course c1 with
\* cascade = true, on a store that holds rows of s2 in c1 and of s1 in c2:
\* S1 is COMPLETE for s1 in c1 and IN_PROGRESS for the two others.
C30_Witness ==
  /\ Completed /\ last.result = OK
  /\ last.call.studentId = "s1" /\ last.call.courseInstanceId = "c1"
  /\ last.call.sectionItemIds = <<"I1">> /\ last.call.cascade
  /\ StatusOf(last.pre, "section", "S1", "s1", "c1") = IN_PROGRESS
  /\ StatusOf(db, "section", "S1", "s1", "c1") = COMPLETE
  /\ StatusOf(db, "sectionItem", "I2", "s1", "c1") = IN_PROGRESS
  /\ StatusOf(db, "section", "S1", "s2", "c1") = IN_PROGRESS
  /\ StatusOf(db, "section", "S1", "s1", "c2") = IN_PROGRESS
  /\ StatusOf(db, "sectionItem", "I2", "s1", "c2") = INCOMPLETE
  /\ <<"s1", "c1">> \in DOMAIN db.total

====
